---- MODULE Spec2Model ----
(***************************************************************************)
(* CareerGPT backend (backend/main.py, backend/gemini_engine.py,           *)
(* backend/firebase_auth.py) as a state machine.                           *)
(*                                                                         *)
(* State: the process configuration (State.supabase, GEMINI_API_KEY, the   *)
(* cached generation client), the two Supabase tables, the requests that   *)
(* wait on the store (an analyze for its insert or its seeding upsert, any *)
(* handler for the answer of a store call that has taken effect), and the  *)
(* response of the request that completed last (with the trace of the      *)
(* external calls it made, in the order the handler made them).            *)
(***************************************************************************)
EXTENDS Integers, Sequences, FiniteSets, TLC

VARIABLES supabase, api_key, client, analyses, roadmap_progress, next_id,
          served, pending, last

vars == <<supabase, api_key, client, analyses, roadmap_progress, next_id,
          served, pending, last>>

(***************************************************************************)
(* Bounds                                                                  *)
(***************************************************************************)
\* requests admitted in one behaviour
MaxRequests == 2
\* requests admitted in one behaviour of the store workload
MaxStoreRequests == 3

(***************************************************************************)
(* Program constants                                                       *)
(***************************************************************************)
\* AnalyzeRequest.resume_text: Field(..., min_length=50)
MinResumeLen == 50
\* ProgressUpdate.skill_score: Field(5, ge=0, le=5)
MinSkillScore == 0
MaxSkillScore == 5
\* "skill_score": 5 in the seeded progress rows
SeedSkillScore == 5

(***************************************************************************)
(* Strings the code searches are sequences of characters.                  *)
(***************************************************************************)
\* "429", the marker analyze looks for
RateLimitMarker == <<"4", "2", "9">>

\* "AI Analysis Failed", the constant analyze_resume stores under "error"
AIAnalysisFailed ==
    <<"A", "I", " ", "A", "n", "a", "l", "y", "s", "i", "s", " ",
      "F", "a", "i", "l", "e", "d">>

\* Python's `sub in s` on strings
Contains(sub, s) ==
    \E i \in 1..(Len(s) - Len(sub) + 1) :
        \A j \in 1..Len(sub) : s[i + j - 1] = sub[j]

Range(f) == {f[x] : x \in DOMAIN f}

\* dict.get(k, default)
Get(d, k, default) == IF k \in DOMAIN d THEN d[k] ELSE default

\* str(d.get(k)) for a string-valued key: a missing key gives None, "None"
StrGet(d, k) == IF k \in DOMAIN d THEN d[k] ELSE "None"

\* d[k] = v on a dict
DictSet(d, k, v) == [x \in DOMAIN d \cup {k} |-> IF x = k THEN v ELSE d[x]]

\* str(n) of a generated id, and the store's parse of an id literal
IdStr == <<"1", "2", "3", "4", "5", "6">>
str(n) == IdStr[n]

(***************************************************************************)
(* Identity verifier: firebase_auth.py                                     *)
(***************************************************************************)
Users == {"u1", "u2"}

\* bearer credentials a request can carry; "absent" is no Authorization header
Tokens == {"tok_u1", "tok_u2", "forged", "absent"}

\* auth.verify_id_token: the decoded token, or an exception
verify_id_token(token) ==
    CASE token = "tok_u1" -> [ok |-> TRUE, decoded |-> [uid |-> "u1"]]
      [] token = "tok_u2" -> [ok |-> TRUE, decoded |-> [uid |-> "u2"]]
      [] OTHER            -> [ok |-> FALSE]

\* verify_firebase_token: the decoded token, or HTTPException(401)
verify_firebase_token(token) ==
    LET r == verify_id_token(token)
    IN  IF r.ok
        THEN [status |-> 200, user |-> r.decoded]
        ELSE [status |-> 401, detail |-> "Invalid Neural Link Token"]

\* HTTPBearer() rejects a request without credentials before the dependency
\* body runs; the status it uses depends on the framework release.
MissingCredentialStatuses == {401, 403}

(***************************************************************************)
(* Persistence gateway: the Supabase calls of main.py                      *)
(***************************************************************************)
\* on_conflict="user_id,analysis_id,day_label,duration_type"
ConflictKey(r) == <<r.user_id, r.analysis_id, r.day_label, r.duration_type>>

ProgressColumns ==
    {"user_id", "analysis_id", "day_label", "duration_type",
     "is_completed", "skill_score", "updated_at"}

\* a column the payload does not carry keeps the stored value on conflict
\* and takes the table default on insert
ColumnDefault(c) == IF c = "updated_at" THEN "default" ELSE "null"

\* an upsert that inserts without looking for the conflict key
UpsertOne_insert(table, payload) ==
    table \cup {[c \in ProgressColumns |->
                    IF c \in DOMAIN payload THEN payload[c]
                    ELSE ColumnDefault(c)]}

\* table("roadmap_progress").upsert(payload, on_conflict=...)
UpsertOne(table, payload) ==
    LET hit == {r \in table : ConflictKey(r) = ConflictKey(payload)}
        merged(old) ==
            [c \in ProgressColumns |->
                IF c \in DOMAIN payload THEN payload[c] ELSE old[c]]
        fresh ==
            [c \in ProgressColumns |->
                IF c \in DOMAIN payload THEN payload[c] ELSE ColumnDefault(c)]
    IN  IF hit = {}
        THEN table \cup {fresh}
        ELSE (table \ hit) \cup {merged(r) : r \in hit}

\* upsert of a list of payloads, applied in order
RECURSIVE UpsertMany(_, _)
UpsertMany(table, payloads) ==
    IF payloads = <<>> THEN table
    ELSE UpsertMany(UpsertOne(table, Head(payloads)), Tail(payloads))

\* the select without its .eq("user_id", user_id)
SelectProgress_any_user(table, analysis_id, user_id) ==
    {r \in table : r.analysis_id = analysis_id}

\* table("roadmap_progress").select("*").eq("analysis_id", a).eq("user_id", u)
SelectProgress(table, analysis_id, user_id) ==
    {r \in table : r.analysis_id = analysis_id /\ r.user_id = user_id}

\* table("analyses").delete().eq("id", record_id).eq("user_id", user_id)
DeleteAnalysis(table, record_id, user_id) ==
    {r \in table : ~(str(r.id) = record_id /\ r.user_id = user_id)}

\* table("analyses").select("*").eq("user_id", u).order("created_at", desc=True)
\* ids are generated in creation order
RECURSIVE OrderDesc(_)
OrderDesc(rows) ==
    IF rows = {} THEN <<>>
    ELSE LET top == CHOOSE r \in rows : \A q \in rows : q.id <= r.id
         IN  <<top>> \o OrderDesc(rows \ {top})

SelectRecords(table, user_id) ==
    OrderDesc({r \in table : r.user_id = user_id})

(***************************************************************************)
(* Generation client: gemini_engine.py                                     *)
(***************************************************************************)
\* str(e) of the provider's failures
Msg429 ==
    <<"4", "2", "9", " ", "R", "E", "S", "O", "U", "R", "C", "E", "_",
      "E", "X", "H", "A", "U", "S", "T", "E", "D">>
MsgUnavailable ==
    <<"5", "0", "3", " ", "U", "N", "A", "V", "A", "I", "L", "A", "B", "L", "E">>
\* str(e) of json.loads on text that is not JSON
MsgParse ==
    <<"E", "x", "p", "e", "c", "t", "i", "n", "g", " ", "v", "a", "l", "u", "e">>

ProviderMessages == {Msg429, MsgUnavailable}

\* the seven keys of the RESPONSE SCHEMA in the prompt
SchemaKeys ==
    {"readiness_score", "skills", "required_skills", "missing_skills",
     "eligible_roles", "salary_tiers", "preparation_plans"}

\* the duration keys of the schema's preparation_plans
DurationKeys == {"30", "60", "90"}

\* RoadmapTask objects the model can return
Task(d) == [day |-> d, topic |-> "topic"]
TaskNoDay == [topic |-> "topic"]

\* a conformant plan
PlanFull ==
    ("30" :> <<Task("Day 1"), Task("Day 2")>>) @@ ("60" :> <<Task("Day 1")>>)
        @@ ("90" :> <<Task("Day 1")>>)
\* a plan off the schema: "60" and "90" absent, a key of its own and a task
\* without a day
PlanOdd ==
    ("30" :> <<Task("Day 1"), TaskNoDay>>) @@ ("45" :> <<Task("Day 1")>>)

Report(plans) ==
    [readiness_score |-> 70, skills |-> <<"python">>,
     required_skills |-> <<"python", "sql">>, missing_skills |-> <<"sql">>,
     eligible_roles |-> <<"Data Analyst">>,
     salary_tiers |-> [entry |-> "6,00,000", mid |-> "12,00,000",
                       senior |-> "24,00,000"],
     preparation_plans |-> plans]

\* JSON objects the model's text can parse to: conformant reports, partial
\* structures, and objects that carry an "error" key of their own
JsonObjects ==
    {Report(PlanFull), Report(PlanOdd),
     [readiness_score |-> 70],
     [error |-> Msg429],
     [error |-> Msg429, details |-> MsgUnavailable]}

\* what client.models.generate_content + json.loads can do in analyze_resume
AnalyzeOutcomes ==
    {[kind |-> "raise", msg |-> m] : m \in ProviderMessages}
        \cup {[kind |-> "parse", msg |-> MsgParse]}
        \cup {[kind |-> "object", value |-> v] : v \in JsonObjects}
        \cup {[kind |-> "array"]}

\* what generate_content can do in the free-text handlers
TextOutcomes ==
    {[kind |-> "text", text |-> "reply"], [kind |-> "raise", msg |-> Msg429]}

\* get_client: the cached client, a new one that is cached from then on, or
\* RuntimeError without a key; client is the value of _client afterwards
get_client(cached, key) ==
    IF cached \/ key THEN [ok |-> TRUE, client |-> TRUE]
    ELSE [ok |-> FALSE, client |-> FALSE]

\* analyze_resume after get_client: json.loads(response.text), or the error
\* dict of the except branch
analyze_resume(outcome) ==
    CASE outcome.kind = "object" -> [type |-> "dict", value |-> outcome.value]
      [] outcome.kind = "array"  -> [type |-> "list", value |-> <<>>]
      [] OTHER ->
            [type |-> "dict",
             value |-> [error |-> AIAnalysisFailed, details |-> outcome.msg]]

(***************************************************************************)
(* Routes of main.py, in registration order                                *)
(***************************************************************************)
Routes ==
    << [method |-> "POST",   path |-> "/analyze",         handler |-> "analyze"],
       [method |-> "POST",   path |-> "/update-progress", handler |-> "update_progress"],
       [method |-> "GET",    path |-> "/get-progress",    handler |-> "get_progress"],
       [method |-> "GET",    path |-> "/learning-records", handler |-> "get_records"],
       [method |-> "DELETE", path |-> "/delete-record",   handler |-> "delete_record"],
       [method |-> "POST",   path |-> "/explain-task",    handler |-> "explain_task"],
       [method |-> "POST",   path |-> "/mock-interview",  handler |-> "mock_interview_195"],
       [method |-> "POST",   path |-> "/mock-interview",  handler |-> "mock_interview_237"] >>

\* the router serves a request with the first route that matches it
Dispatch(method, path) ==
    LET hits == {i \in 1..Len(Routes) :
                    Routes[i].method = method /\ Routes[i].path = path}
        first == CHOOSE i \in hits : \A j \in hits : i <= j
    IN  Routes[first].handler

(***************************************************************************)
(* Requests and responses                                                  *)
(***************************************************************************)
\* The response of a completed request, with what the handler was given and
\* the external calls it made, in order: "verify" (auth.verify_id_token),
\* "generate" (generate_content), "insert", "upsert", "select", "delete"
\* (the Supabase calls). handled = FALSE: the exception left the handler and
\* the server answered 500 itself. gen: what the handler passed to the
\* generation client and what it got back. pre: the stored rows under the
\* upserted key before an update, the stored rows a delete matches.
Response(op, token, uid, req, status, body, trace, handled, gen, pre) ==
    [op |-> op, token |-> token, uid |-> uid, req |-> req, status |-> status,
     body |-> body, trace |-> trace, handled |-> handled, gen |-> gen,
     pre |-> pre]

NoResponse ==
    Response("none", "none", "none", <<>>, 0, <<>>, <<>>, TRUE, <<>>, {})

\* the Depends(verify_firebase_token) of every route lets the handler run
Authenticated(token) ==
    token # "absent" /\ verify_firebase_token(token).status = 200

Caller(token) == verify_firebase_token(token).user.uid

\* responses of a request the dependency rejects: the handler never runs
Denied(op, token) ==
    IF token = "absent"
    THEN {Response(op, token, "none", <<>>, st, "Not authenticated", <<>>,
                   TRUE, <<>>, {}) : st \in MissingCredentialStatuses}
    ELSE {Response(op, token, "none", <<>>,
                   verify_firebase_token(token).status,
                   verify_firebase_token(token).detail, <<"verify">>,
                   TRUE, <<>>, {})}

\* outcomes of one Supabase call: it answers, it raises, or (insert) it
\* answers without the inserted row
DbOutcomes == {"ok", "raise"}
InsertOutcomes == {"ok", "raise", "nodata"}

Completed == served - Cardinality(pending)

\* a request whose store call has taken effect and whose handler has not
\* resumed yet: n is the number of the request, r the response it will give
Awaited(n, r) == [n |-> n, stage |-> "return", response |-> r]

(***************************************************************************)
(* POST /analyze                                                           *)
(***************************************************************************)
\* the order in which plans.items() yields the duration keys
DurationOrder == <<"30", "45", "60", "90">>

\* the payload of the insert into 'analyses' (main.py 80-90), with the id
\* the store generates
AnalysisRow(id, user_id, target_role, result) ==
    [id |-> id, user_id |-> user_id, target_role |-> target_role,
     eligible_roles |-> Get(result, "eligible_roles", <<>>),
     readiness_score |-> Get(result, "readiness_score", 0),
     skills |-> Get(result, "skills", <<>>),
     required_skills |-> Get(result, "required_skills", <<>>),
     missing_skills |-> Get(result, "missing_skills", <<>>),
     salary_tiers |-> Get(result, "salary_tiers", <<>>),
     preparation_plans |-> Get(result, "preparation_plans", <<>>)]

\* one progress row of the seeding loop (main.py 104-111)
SeedRow(analysis_id, user_id, duration, task) ==
    [analysis_id |-> str(analysis_id), user_id |-> user_id,
     day_label |-> StrGet(task, "day"), duration_type |-> duration,
     is_completed |-> FALSE, skill_score |-> SeedSkillScore]

\* progress_rows: for duration, tasks in plans.items(): for task in tasks
RECURSIVE ProgressRows(_, _, _, _)
ProgressRows(analysis_id, user_id, plans, order) ==
    IF order = <<>> THEN <<>>
    ELSE LET d == Head(order)
             here == IF d \in DOMAIN plans
                     THEN [i \in 1..Len(plans[d]) |->
                              SeedRow(analysis_id, user_id, d, plans[d][i])]
                     ELSE <<>>
         IN  here \o ProgressRows(analysis_id, user_id, plans, Tail(order))

\* the status analyze gives an error result (main.py 73)
ErrorStatus(result) ==
    IF Contains(RateLimitMarker, result["error"]) THEN 429 ELSE 503

\* analyze up to the await of its insert: the response, or "pending" with the
\* request that waits for the store (n: the number of the request)
analyze(token, req, outcome, configured, cached, key, n) ==
    LET uid == Caller(token)
        t0 == <<"verify">>
        t1 == <<"verify", "generate">>
        res == analyze_resume(outcome)
        gen == [input |-> <<"TARGET ROLE: ", req.target_role>>, output |-> res]
        out(status, body, trace) ==
            [kind |-> "response", client |-> cached \/ Len(trace) > 1,
             response |-> Response("analyze", token, uid, req, status, body,
                                   trace, TRUE,
                                   IF Len(trace) > 1 THEN gen ELSE <<>>, {})]
    IN  IF req.resume_len < MinResumeLen
        THEN out(422, "validation error", t0)
        ELSE IF ~get_client(cached, key).ok
        THEN out(500, "Internal processing error.", t0)
        ELSE IF res.type # "dict"
        THEN IF configured
             THEN out(500, "Internal processing error.", t1)
             ELSE out(200, res.value, t1)
        ELSE IF "error" \in DOMAIN res.value
        THEN IF "details" \in DOMAIN res.value
             THEN out(ErrorStatus(res.value), res.value["details"], t1)
             ELSE out(500, "Internal processing error.", t1)
        ELSE IF ~configured
        THEN out(200, res.value, t1)
        ELSE [kind |-> "pending", client |-> TRUE,
              request |-> [stage |-> "insert", n |-> n, token |-> token,
                           uid |-> uid, req |-> req, id |-> 0,
                           result |-> res.value, gen |-> gen,
                           trace |-> t1 \o <<"insert">>]]

\* analyze when its insert is answered: the response of a failed insert, or
\* the inserted row and the request that goes on to seed
inserted(p, db, id) ==
    LET out(status, body) ==
            [kind |-> "response",
             response |-> Response("analyze", p.token, p.uid, p.req, status,
                                   body, p.trace, TRUE, p.gen, {})]
    IN  IF db = "raise"
        THEN out(500, "Internal processing error.")
        ELSE IF db = "nodata"
        THEN out(500, "Database Sync Failed.")
        ELSE [kind |-> "pending",
              row |-> AnalysisRow(id, p.uid, p.req.target_role, p.result),
              request |-> [p EXCEPT !.stage = "seed", !.id = id,
                                    !.result = DictSet(p.result, "id", id)]]

\* analyze after its insert: the seeding upsert and the response it leads to
seed(p, db, table) ==
    LET plans == Get(p.result, "preparation_plans", <<>>)
        rows == ProgressRows(p.id, p.uid, plans, DurationOrder)
        out(status, body, trace, t) ==
            [table |-> t,
             response |-> Response("analyze", p.token, p.uid, p.req, status,
                                   body, trace, TRUE, p.gen, {})]
    IN  IF rows = <<>>
        THEN out(200, p.result, p.trace, table)
        ELSE IF db = "raise"
        THEN out(500, "Internal processing error.", p.trace \o <<"upsert">>,
                 table)
        ELSE out(200, p.result, p.trace \o <<"upsert">>,
                 UpsertMany(table, rows))

AnalyzeRequests ==
    [resume_len : {MinResumeLen - 1, MinResumeLen},
     target_role : {"Backend Engineer"}]

\* w: the workload of the run, see Workload
Analyze(w) ==
    /\ served < w.max
    /\ served' = served + 1
    /\ UNCHANGED <<supabase, api_key, analyses, roadmap_progress, next_id>>
    /\ \E token \in w.tokens :
        \/ /\ ~Authenticated(token)
           /\ last' \in Denied("analyze", token)
           /\ UNCHANGED <<client, pending>>
        \/ /\ Authenticated(token)
           /\ \E req \in w.analyze, outcome \in w.generated :
                LET r == analyze(token, req, outcome, supabase, client,
                                 api_key, served + 1)
                IN  /\ client' = r.client
                    /\ IF r.kind = "pending"
                       THEN /\ pending' = pending \cup {r.request}
                            /\ UNCHANGED last
                       ELSE /\ last' = r.response
                            /\ UNCHANGED pending

AnalyzeInsert(w) ==
    /\ \E p \in pending, db \in w.insert :
        LET r == inserted(p, db, next_id)
        IN  /\ p.stage = "insert"
            /\ IF r.kind = "pending"
               THEN /\ analyses' = analyses \cup {r.row}
                    /\ next_id' = next_id + 1
                    /\ pending' = (pending \ {p}) \cup {r.request}
                    /\ UNCHANGED last
               ELSE /\ pending' = pending \ {p}
                    /\ last' = r.response
                    /\ UNCHANGED <<analyses, next_id>>
    /\ UNCHANGED <<supabase, api_key, client, roadmap_progress, served>>

AnalyzeSeed(w) ==
    /\ \E p \in pending, db \in w.store :
        LET reached == "upsert" \in
                Range(seed(p, "ok", roadmap_progress).response.trace)
            r == seed(p, db, roadmap_progress)
        IN  /\ p.stage = "seed"
            /\ reached \/ db = "ok"
            /\ roadmap_progress' = r.table
            /\ IF reached /\ db = "ok"
               THEN /\ pending' = (pending \ {p}) \cup {Awaited(p.n, r.response)}
                    /\ UNCHANGED last
               ELSE /\ pending' = pending \ {p}
                    /\ last' = r.response
    /\ UNCHANGED <<supabase, api_key, client, analyses, next_id, served>>

\* the handler resumes after the seeding upsert and returns
AnalyzeReturn ==
    /\ \E p \in pending :
        /\ p.stage = "return"
        /\ p.response.op = "analyze"
        /\ pending' = pending \ {p}
        /\ last' = p.response
    /\ UNCHANGED <<supabase, api_key, client, analyses, roadmap_progress,
                   next_id, served>>

(***************************************************************************)
(* POST /update-progress                                                   *)
(***************************************************************************)
\* the payload of the upsert (main.py 134-142)
ProgressPayload(user_id, data) ==
    [user_id |-> user_id, analysis_id |-> data.analysis_id,
     day_label |-> data.day_label, duration_type |-> data.duration_type,
     is_completed |-> data.is_completed, skill_score |-> data.skill_score,
     updated_at |-> "now()"]

update_progress(token, data, db, configured, table) ==
    LET uid == Caller(token)
        payload == ProgressPayload(uid, data)
        hit == {r \in table : ConflictKey(r) = ConflictKey(payload)}
        after == UpsertOne(table, payload)
        out(status, body, trace, t) ==
            [table |-> t,
             response |-> Response("update_progress", token, uid, data, status,
                                   body, trace, TRUE, <<>>, hit)]
    IN  IF data.skill_score < MinSkillScore \/ data.skill_score > MaxSkillScore
        THEN out(422, "validation error", <<"verify">>, table)
        ELSE IF ~configured
        THEN out(500, "Supabase offline", <<"verify">>, table)
        ELSE IF db = "raise"
        THEN out(500, "Database conflict detected.", <<"verify", "upsert">>,
                 table)
        ELSE out(200,
                 [status |-> "success",
                  data |-> {r \in after : ConflictKey(r) = ConflictKey(payload)}],
                 <<"verify", "upsert">>, after)

\* ids a caller can name: generated ones, guessed ones
NamedIds == {"1", "2"}

\* bodies of POST /update-progress: two values on one key, a second day and
\* a second analysis id, and one body that fails validation
ProgressUpdates ==
    {[analysis_id |-> "1", day_label |-> "Day 1", is_completed |-> TRUE,
      duration_type |-> "30", skill_score |-> s] :
        s \in {3, MaxSkillScore, MaxSkillScore + 1}}
        \cup {[analysis_id |-> "1", day_label |-> "Day 2",
               is_completed |-> FALSE, duration_type |-> "30",
               skill_score |-> 3],
              [analysis_id |-> "2", day_label |-> "Day 1",
               is_completed |-> FALSE, duration_type |-> "30",
               skill_score |-> 3]}

UpdateProgress(w) ==
    /\ served < w.max
    /\ served' = served + 1
    /\ UNCHANGED <<supabase, api_key, client, analyses, next_id>>
    /\ \E token \in w.tokens :
        \/ /\ ~Authenticated(token)
           /\ last' \in Denied("update_progress", token)
           /\ UNCHANGED <<roadmap_progress, pending>>
        \/ /\ Authenticated(token)
           /\ \E data \in w.update, db \in w.store :
                LET reached == update_progress(token, data, "ok", supabase,
                                   roadmap_progress).response.status = 200
                    r == update_progress(token, data, db, supabase,
                                         roadmap_progress)
                IN  /\ reached \/ db = "ok"
                    /\ roadmap_progress' = r.table
                    /\ IF r.response.status = 200
                       THEN /\ pending' = pending
                                    \cup {Awaited(served + 1, r.response)}
                            /\ UNCHANGED last
                       ELSE /\ last' = r.response
                            /\ UNCHANGED pending

\* the handler resumes after the upsert and returns
UpdateProgressReturn ==
    /\ \E p \in pending :
        /\ p.stage = "return"
        /\ p.response.op = "update_progress"
        /\ pending' = pending \ {p}
        /\ last' = p.response
    /\ UNCHANGED <<supabase, api_key, client, analyses, roadmap_progress,
                   next_id, served>>

(***************************************************************************)
(* GET /get-progress/{analysis_id}, GET /learning-records                  *)
(***************************************************************************)
get_progress(token, analysis_id, db, configured, table) ==
    LET uid == Caller(token)
        req == [analysis_id |-> analysis_id]
    IN  IF ~configured
        THEN Response("get_progress", token, uid, req, 200, {}, <<"verify">>,
                      TRUE, <<>>, {})
        ELSE IF db = "raise"
        THEN Response("get_progress", token, uid, req, 500,
                      "Internal Server Error", <<"verify", "select">>, FALSE,
                      <<>>, {})
        ELSE Response("get_progress", token, uid, req, 200,
                      SelectProgress(table, analysis_id, uid),
                      <<"verify", "select">>, TRUE, <<>>, {})

GetProgress(w) ==
    /\ served < w.max
    /\ served' = served + 1
    /\ UNCHANGED <<supabase, api_key, client, analyses, roadmap_progress,
                   next_id>>
    /\ \E token \in w.tokens :
        \/ /\ ~Authenticated(token)
           /\ last' \in Denied("get_progress", token)
           /\ UNCHANGED pending
        \/ /\ Authenticated(token)
           /\ \E analysis_id \in w.ids, db \in w.store :
                LET r == get_progress(token, analysis_id, db, supabase,
                                      roadmap_progress)
                IN  /\ supabase \/ db = "ok"
                    /\ IF supabase /\ db = "ok"
                       THEN /\ pending' = pending \cup {Awaited(served + 1, r)}
                            /\ UNCHANGED last
                       ELSE /\ last' = r
                            /\ UNCHANGED pending

\* the handler resumes after the select and returns
GetProgressReturn ==
    /\ \E p \in pending :
        /\ p.stage = "return"
        /\ p.response.op = "get_progress"
        /\ pending' = pending \ {p}
        /\ last' = p.response
    /\ UNCHANGED <<supabase, api_key, client, analyses, roadmap_progress,
                   next_id, served>>

get_records(token, db, configured, table) ==
    LET uid == Caller(token)
    IN  IF ~configured
        THEN Response("get_records", token, uid, <<>>, 200, <<>>, <<"verify">>,
                      TRUE, <<>>, {})
        ELSE IF db = "raise"
        THEN Response("get_records", token, uid, <<>>, 500,
                      "Internal Server Error", <<"verify", "select">>, FALSE,
                      <<>>, {})
        ELSE Response("get_records", token, uid, <<>>, 200,
                      SelectRecords(table, uid), <<"verify", "select">>, TRUE,
                      <<>>, {})

GetRecords(w) ==
    /\ served < w.max
    /\ served' = served + 1
    /\ UNCHANGED <<supabase, api_key, client, analyses, roadmap_progress,
                   next_id>>
    /\ \E token \in w.tokens :
        \/ /\ ~Authenticated(token)
           /\ last' \in Denied("get_records", token)
           /\ UNCHANGED pending
        \/ /\ Authenticated(token)
           /\ \E db \in w.store :
                LET r == get_records(token, db, supabase, analyses)
                IN  /\ supabase \/ db = "ok"
                    /\ IF supabase /\ db = "ok"
                       THEN /\ pending' = pending \cup {Awaited(served + 1, r)}
                            /\ UNCHANGED last
                       ELSE /\ last' = r
                            /\ UNCHANGED pending

\* the handler resumes after the select and returns
GetRecordsReturn ==
    /\ \E p \in pending :
        /\ p.stage = "return"
        /\ p.response.op = "get_records"
        /\ pending' = pending \ {p}
        /\ last' = p.response
    /\ UNCHANGED <<supabase, api_key, client, analyses, roadmap_progress,
                   next_id, served>>

(***************************************************************************)
(* DELETE /delete-record/{record_id}                                       *)
(***************************************************************************)
\* State.supabase is used unguarded: None.table raises AttributeError
delete_record(token, record_id, db, configured, table) ==
    LET uid == Caller(token)
        req == [record_id |-> record_id]
        hit == {r \in table : str(r.id) = record_id /\ r.user_id = uid}
        out(status, body, trace, handled, t) ==
            [table |-> t,
             response |-> Response("delete_record", token, uid, req, status,
                                   body, trace, handled, <<>>, hit)]
    IN  IF ~configured
        THEN out(500, "Internal Server Error", <<"verify">>, FALSE, table)
        ELSE IF db = "raise"
        THEN out(500, "Internal Server Error", <<"verify", "delete">>, FALSE,
                 table)
        ELSE out(200, [status |-> "success"], <<"verify", "delete">>, TRUE,
                 DeleteAnalysis(table, record_id, uid))

DeleteRecord(w) ==
    /\ served < w.max
    /\ served' = served + 1
    /\ UNCHANGED <<supabase, api_key, client, roadmap_progress, next_id>>
    /\ \E token \in w.tokens :
        \/ /\ ~Authenticated(token)
           /\ last' \in Denied("delete_record", token)
           /\ UNCHANGED <<analyses, pending>>
        \/ /\ Authenticated(token)
           /\ \E record_id \in w.ids, db \in w.store :
                LET r == delete_record(token, record_id, db, supabase, analyses)
                IN  /\ supabase \/ db = "ok"
                    /\ analyses' = r.table
                    /\ IF r.response.status = 200
                       THEN /\ pending' = pending
                                    \cup {Awaited(served + 1, r.response)}
                            /\ UNCHANGED last
                       ELSE /\ last' = r.response
                            /\ UNCHANGED pending

\* the handler resumes after the delete and returns
DeleteRecordReturn ==
    /\ \E p \in pending :
        /\ p.stage = "return"
        /\ p.response.op = "delete_record"
        /\ pending' = pending \ {p}
        /\ last' = p.response
    /\ UNCHANGED <<supabase, api_key, client, analyses, roadmap_progress,
                   next_id, served>>

(***************************************************************************)
(* POST /explain-task                                                      *)
(***************************************************************************)
ExplainFallback ==
    "Neural Link offline. The AI Mentor is currently recalibrating."

explain_task(token, req, outcome, cached, key) ==
    LET uid == Caller(token)
        prompt == <<"Explain the topic '", req.topic, "' Context: ",
                    req.description>>
        gen == [input |-> [contents |-> prompt], output |-> outcome]
        out(body, trace, g) ==
            [client |-> get_client(cached, key).client,
             response |-> Response("explain_task", token, uid, req, 200,
                                   [explanation |-> body], trace, TRUE, g, {})]
    IN  IF ~get_client(cached, key).ok
        THEN out(ExplainFallback, <<"verify">>, <<>>)
        ELSE IF outcome.kind = "raise"
        THEN out(ExplainFallback, <<"verify", "generate">>, gen)
        ELSE out(outcome.text, <<"verify", "generate">>, gen)

ExplainRequests == [topic : {"SQL joins"}, description : {"inner and outer"}]

ExplainTask(w) ==
    /\ served < w.max
    /\ served' = served + 1
    /\ UNCHANGED <<supabase, api_key, analyses, roadmap_progress, next_id,
                   pending>>
    /\ \E token \in w.tokens :
        \/ /\ ~Authenticated(token)
           /\ last' \in Denied("explain_task", token)
           /\ UNCHANGED client
        \/ /\ Authenticated(token)
           /\ \E req \in w.explain, outcome \in w.text :
                LET r == explain_task(token, req, outcome, client, api_key)
                IN  /\ client' = r.client
                    /\ last' = r.response

(***************************************************************************)
(* POST /mock-interview: two handlers registered on the same route         *)
(***************************************************************************)
\* longest conversation history of a request
MaxHistory == 2

\* history entries: {q: ..., a: ...} dicts
Turns == {[q |-> "q1", a |-> "a1"], [q |-> "q2", a |-> "a2"]}

\* every history of at most MaxHistory entries, and one whose entry has no 'q'
Histories ==
    UNION {[1..n -> Turns] : n \in 0..MaxHistory} \cup {<<[a |-> "a3"]>>}

\* the opening request (no answer yet, no history) and an answer after every
\* history
InterviewRequests ==
    {[target_role |-> "Backend Engineer", last_answer |-> "",
      history |-> <<>>]}
        \cup [target_role : {"Backend Engineer"}, last_answer : {"my answer"},
              history : Histories]

\* entry['q'] and entry['a'] of every entry succeed
WellFormed(history) ==
    \A i \in 1..Len(history) : {"q", "a"} \subseteq DOMAIN history[i]

\* text built by concatenation is the sequence of its pieces
RECURSIVE ChatTurns(_)
ChatTurns(history) ==
    IF history = <<>> THEN <<>>
    ELSE <<"Interviewer: ", Head(history).q, "\nCandidate: ",
           Head(history).a, "\n">> \o ChatTurns(Tail(history))

\* the handler defined at main.py 195-226
mock_interview_195(token, req, outcome, cached, key) ==
    LET uid == Caller(token)
        system_instruction ==
            <<"You are a Senior Technical Interviewer for the role of ",
              req.target_role, ". ">>
        input_text == IF req.last_answer # "" THEN req.last_answer
                      ELSE "Let's start the interview."
        input == [input |-> [contents |-> <<input_text>>,
                             system_instruction |-> system_instruction],
                  output |-> outcome]
        out(status, body, trace, gen) ==
            [client |-> get_client(cached, key).client,
             response |-> Response("mock_interview", token, uid, req, status,
                                   body, trace, TRUE, gen, {})]
    IN  IF ~get_client(cached, key).ok
        THEN out(500, "GEMINI_API_KEY not found in environment", <<"verify">>,
                 <<>>)
        ELSE IF ~WellFormed(req.history)
        THEN out(500, "'q'", <<"verify">>, <<>>)
        ELSE IF outcome.kind = "raise"
        THEN out(500, outcome.msg, <<"verify", "generate">>, input)
        ELSE out(200, [question |-> outcome.text], <<"verify", "generate">>,
                 input)

\* the handler defined at main.py 237-271
mock_interview_237(token, req, outcome, cached, key) ==
    LET uid == Caller(token)
        persona ==
            <<"You are conducting a technical interview for the role of ",
              req.target_role, ". ">>
        chat_context ==
            <<"Target Role: ", req.target_role, "\n">>
                \o ChatTurns(req.history)
                \o <<"Candidate's latest response: ", req.last_answer>>
        input == [input |-> [contents |-> chat_context,
                             system_instruction |-> persona],
                  output |-> outcome]
        out(status, body, trace, gen) ==
            [client |-> get_client(cached, key).client,
             response |-> Response("mock_interview", token, uid, req, status,
                                   body, trace, TRUE, gen, {})]
    IN  IF ~get_client(cached, key).ok
        THEN out(500, "Neural link failed.", <<"verify">>, <<>>)
        ELSE IF ~WellFormed(req.history)
        THEN out(500, "Neural link failed.", <<"verify">>, <<>>)
        ELSE IF outcome.kind = "raise"
        THEN out(500, "Neural link failed.", <<"verify", "generate">>, input)
        ELSE out(200, [question |-> outcome.text], <<"verify", "generate">>,
                 input)

\* the handler that serves POST /mock-interview
mock_interview(token, req, outcome, cached, key) ==
    IF Dispatch("POST", "/mock-interview") = "mock_interview_195"
    THEN mock_interview_195(token, req, outcome, cached, key)
    ELSE mock_interview_237(token, req, outcome, cached, key)

MockInterview(w) ==
    /\ served < w.max
    /\ served' = served + 1
    /\ UNCHANGED <<supabase, api_key, analyses, roadmap_progress, next_id,
                   pending>>
    /\ \E token \in w.tokens :
        \/ /\ ~Authenticated(token)
           /\ last' \in Denied("mock_interview", token)
           /\ UNCHANGED client
        \/ /\ Authenticated(token)
           /\ \E req \in w.interview, outcome \in w.text :
                LET r == mock_interview(token, req, outcome, client, api_key)
                IN  /\ client' = r.client
                    /\ last' = r.response

Init ==
    /\ supabase \in BOOLEAN
    /\ api_key \in BOOLEAN
    /\ client = FALSE
    /\ analyses = {}
    /\ roadmap_progress = {}
    /\ next_id = 1
    /\ served = 0
    /\ pending = {}
    /\ last = NoResponse

(***************************************************************************)
(* Workloads: the requests the clients send and the outcomes the           *)
(* generation service and the store give in a run                          *)
(***************************************************************************)
\* every endpoint, with callers the verification turns away, bodies that
\* fail validation, and generation and store calls that fail
Workload ==
    [max |-> MaxRequests, tokens |-> Tokens, analyze |-> AnalyzeRequests,
     generated |-> AnalyzeOutcomes, insert |-> InsertOutcomes,
     store |-> DbOutcomes, update |-> ProgressUpdates, ids |-> NamedIds,
     explain |-> ExplainRequests, interview |-> InterviewRequests,
     text |-> TextOutcomes]

\* longer runs of the requests that reach the store and change it or read
\* the progress rows: verified callers, valid bodies, a conformant analysis,
\* store calls that answer
StoreWorkload ==
    [max |-> MaxStoreRequests,
     tokens |-> {t \in Tokens : Authenticated(t)},
     analyze |-> {r \in AnalyzeRequests : r.resume_len >= MinResumeLen},
     generated |-> {[kind |-> "object", value |-> Report(PlanFull)]},
     insert |-> {"ok"}, store |-> {"ok"},
     update |-> {d \in ProgressUpdates : d.skill_score <= MaxSkillScore},
     ids |-> NamedIds]

Next ==
    \/ Analyze(Workload)
    \/ AnalyzeInsert(Workload)
    \/ AnalyzeSeed(Workload)
    \/ AnalyzeReturn
    \/ UpdateProgress(Workload)
    \/ UpdateProgressReturn
    \/ GetProgress(Workload)
    \/ GetProgressReturn
    \/ GetRecords(Workload)
    \/ GetRecordsReturn
    \/ DeleteRecord(Workload)
    \/ DeleteRecordReturn
    \/ ExplainTask(Workload)
    \/ MockInterview(Workload)

Spec == Init /\ [][Next]_vars

\* the store is configured and the generation key is set
StoreInit ==
    /\ supabase = TRUE
    /\ api_key = TRUE
    /\ client = FALSE
    /\ analyses = {}
    /\ roadmap_progress = {}
    /\ next_id = 1
    /\ served = 0
    /\ pending = {}
    /\ last = NoResponse

StoreNext ==
    \/ Analyze(StoreWorkload)
    \/ AnalyzeInsert(StoreWorkload)
    \/ AnalyzeSeed(StoreWorkload)
    \/ AnalyzeReturn
    \/ UpdateProgress(StoreWorkload)
    \/ UpdateProgressReturn
    \/ GetProgress(StoreWorkload)
    \/ GetProgressReturn
    \/ DeleteRecord(StoreWorkload)
    \/ DeleteRecordReturn

StoreSpec == StoreInit /\ [][StoreNext]_vars

(***************************************************************************)
(* Properties                                                              *)
(***************************************************************************)
BusinessEvents == {"generate", "insert", "upsert", "select", "delete"}
StoreEvents == {"insert", "upsert", "select", "delete"}

\* the credential is one auth.verify_id_token accepts
Genuine(token) == token # "absent" /\ verify_id_token(token).ok

\* every generation or store call of the trace comes after the verification
VerifiedFirst(trace) ==
    \A i \in 1..Len(trace) :
        trace[i] \in BusinessEvents => \E j \in 1..(i - 1) : trace[j] = "verify"

\* the step completes a request of the given endpoint
Completes(op) == Completed' = Completed + 1 /\ last'.op = op

\* the request failed on a store call that raised
StoreFault(r) == r.status = 500 /\ Range(r.trace) \cap StoreEvents # {}

\* what a request that waits on the store has done so far, and for whom
TraceOf(p) == IF p.stage = "return" THEN p.response.trace ELSE p.trace
TokenOf(p) == IF p.stage = "return" THEN p.response.token ELSE p.token

\* C1: on every endpoint the credential verification comes before any
\* generation call and any store call of the request; a request whose
\* credential is missing or fails verification ends with 401 and makes no
\* generation call and no store call.
C1_VerificationFirst ==
    /\ last.op # "none" =>
        /\ VerifiedFirst(last.trace)
        /\ Range(last.trace) \cap BusinessEvents # {} => Genuine(last.token)
        /\ ~Genuine(last.token) =>
            /\ last.status = 401
            /\ Range(last.trace) \cap BusinessEvents = {}
    /\ \A p \in pending : VerifiedFirst(TraceOf(p)) /\ Genuine(TokenOf(p))

\* C2: get_progress answers a verified caller only rows whose user_id is
\* the caller's, whichever analysis_id is asked for.
C2_ProgressOwnRowsOnly ==
    (last.op = "get_progress" /\ last.status = 200) =>
        \A r \in last.body : r.user_id = verify_id_token(last.token).decoded.uid

\* a caller who has rows under the id of an analysis another user owns got
\* rows back while the table holds rows of that user under the same id
C2_Witness ==
    /\ last.op = "get_progress"
    /\ last.status = 200
    /\ last.body # {}
    /\ \E a \in analyses :
        str(a.id) = last.req.analysis_id /\ a.user_id # last.uid
    /\ \E r \in roadmap_progress :
        r.analysis_id = last.req.analysis_id /\ r.user_id # last.uid

\* the requests whose store call takes effect in the step
Issued(op) ==
    {p \in pending' \ pending : p.stage = "return" /\ p.response.op = op}

\* C3: the delete of delete_record by caller u removes exactly the analyses
\* rows with id = record_id and user_id = u, and when no row matches (the id
\* does not exist or belongs to another user) the request answers
\* {status: success}. Requests whose store call raised are left out.
C3_DeleteOnlyOwnRecord ==
    [][/\ \A p \in Issued("delete_record") :
            LET u == verify_id_token(p.response.token).decoded.uid
                rid == p.response.req.record_id
                mine == {r \in analyses : str(r.id) = rid /\ r.user_id = u}
            IN  analyses' = analyses \ mine
       /\ (Completes("delete_record") /\ Genuine(last'.token)
            /\ ~StoreFault(last') /\ last'.pre = {})
            => /\ last'.status = 200
               /\ last'.body = [status |-> "success"]]_vars

\* C4: when analyze_resume gives its error result, analyze answers 429 if
\* the provider's message contains "429" and 503 otherwise, and inserts no
\* analysis row.
C4_RateLimitStatus ==
    (/\ last.op = "analyze"
     /\ "generate" \in Range(last.trace)
     /\ last.gen.output.type = "dict"
     /\ DOMAIN last.gen.output.value = {"error", "details"}
     /\ last.gen.output.value["error"] = AIAnalysisFailed)
    => /\ last.status =
            IF Contains(RateLimitMarker, last.gen.output.value["details"])
            THEN 429 ELSE 503
       /\ "insert" \notin Range(last.trace)

\* C5: every roadmap_progress row names an analysis that exists and has the
\* row's user_id.
C5_ProgressReferencesAnalysis ==
    \A r \in roadmap_progress :
        \E a \in analyses : str(a.id) = r.analysis_id /\ a.user_id = r.user_id

\* the (duration, task) pairs of a preparation_plans value
PlanTasks(plans) ==
    UNION {{<<d, i>> : i \in 1..Len(plans[d])} : d \in DOMAIN plans}

\* C6: after a successful analyze (store configured) that returned id A, a
\* get_progress(A) by the same caller, with no update_progress in between,
\* answers one row per (duration, task) pair of the returned
\* preparation_plans, each with is_completed = false and skill_score = 5.
C6_SeededProgress ==
    (last.op = "analyze" /\ last.status = 200 /\ supabase) =>
        LET plans == Get(last.body, "preparation_plans", <<>>)
            rows == get_progress(last.token, str(last.body["id"]), "ok",
                                 supabase, roadmap_progress).body
        IN  /\ Cardinality(rows) = Cardinality(PlanTasks(plans))
            /\ \A t \in PlanTasks(plans) :
                \E r \in rows :
                    /\ r.duration_type = t[1]
                    /\ r.day_label = StrGet(plans[t[1]][t[2]], "day")
            /\ \A r \in rows : ~r.is_completed /\ r.skill_score = 5

\* C7: the object a successful analyze returns, whatever JSON object the
\* generation service produced, has the seven schema keys, and its
\* preparation_plans has exactly the keys "30", "60", "90".
C7_ReturnedSchema ==
    (last.op = "analyze" /\ last.status = 200
        /\ last.gen.output.type = "dict") =>
        /\ SchemaKeys \subseteq DOMAIN last.body
        /\ DOMAIN last.body["preparation_plans"] = DurationKeys

\* the handler ran and its generation call gave a usable analysis
UsableAnalysis(r) ==
    /\ "generate" \in Range(r.trace)
    /\ r.gen.output.type = "dict"
    /\ "error" \notin DOMAIN r.gen.output.value

\* C8: with State.supabase None, get_progress and get_records answer an
\* empty sequence with 200, update_progress, delete_record and the persist
\* step of analyze answer a 500 the handler raised, and no request ends in
\* an exception the handler did not catch.
C8_UnconfiguredStore ==
    (~supabase /\ last.op # "none" /\ Genuine(last.token)) =>
        /\ last.handled
        /\ last.op = "get_progress" => (last.status = 200 /\ last.body = {})
        /\ last.op = "get_records" => (last.status = 200 /\ last.body = <<>>)
        /\ (last.op = "update_progress" /\ last.status # 422)
                => last.status = 500
        /\ last.op = "delete_record" => last.status = 500
        /\ (last.op = "analyze" /\ UsableAnalysis(last)) => last.status = 500

\* no two rows of the table share a conflict key
KeyUnique(table) ==
    \A r, q \in table : ConflictKey(r) = ConflictKey(q) => r = q

\* C9: update_progress overwrites under (user_id, analysis_id, day_label,
\* duration_type): the table never holds two rows with one key, and when the
\* upsert of an update takes effect the key has exactly one row, with the
\* is_completed and skill_score of that call, and the rows of every other
\* key are unchanged; so of two successive calls on one key the later
\* one's values stay.
C9_UpsertOverwrites ==
    [][/\ KeyUnique(roadmap_progress')
       /\ \A p \in Issued("update_progress") :
            LET data == p.response.req
                k == <<verify_id_token(p.response.token).decoded.uid,
                       data.analysis_id, data.day_label, data.duration_type>>
                now == {r \in roadmap_progress' : ConflictKey(r) = k}
            IN  /\ Cardinality(now) = 1
                /\ \A r \in now :
                     /\ r.is_completed = data.is_completed
                     /\ r.skill_score = data.skill_score
                /\ {r \in roadmap_progress' : ConflictKey(r) # k}
                     = {r \in roadmap_progress : ConflictKey(r) # k}]_vars

\* an update_progress on a key that an earlier update_progress wrote with
\* another skill_score has answered: the key has one row, with the later
\* call's values, next to a row of the same caller and analysis under
\* another key
C9_Witness ==
    /\ last.op = "update_progress"
    /\ last.status = 200
    /\ \E r \in last.pre :
        r.updated_at = "now()" /\ r.skill_score # last.req.skill_score
    /\ \E r \in roadmap_progress :
        /\ ConflictKey(r) = ConflictKey(ProgressPayload(last.uid, last.req))
        /\ r.skill_score = last.req.skill_score
    /\ \E r \in roadmap_progress :
        /\ r.user_id = last.uid
        /\ r.analysis_id = last.req.analysis_id
        /\ ConflictKey(r) # ConflictKey(ProgressPayload(last.uid, last.req))

\* q and a of every entry, oldest first
RECURSIVE Linearized(_)
Linearized(history) ==
    IF history = <<>> THEN <<>>
    ELSE <<Head(history).q, Head(history).a>> \o Linearized(Tail(history))

\* sub's elements occur in s in sub's order
RECURSIVE IsSubsequence(_, _)
IsSubsequence(sub, s) ==
    IF sub = <<>> THEN TRUE
    ELSE IF s = <<>> THEN FALSE
    ELSE IF Head(sub) = Head(s) THEN IsSubsequence(Tail(sub), Tail(s))
    ELSE IsSubsequence(sub, Tail(s))

\* C10: the contents a mock-interview request passes to the generation
\* service hold every turn of its history, question then answer, oldest
\* first, followed by the latest answer.
C10_HistoryLinearized ==
    (last.op = "mock_interview" /\ "generate" \in Range(last.trace)) =>
        IsSubsequence(
            Linearized(last.req.history)
                \o (IF last.req.last_answer = "" THEN <<>>
                    ELSE <<last.req.last_answer>>),
            last.gen.input.contents)

====
